---- MODULE Spec2Model ----
(***************************************************************************)
(* Model of inventory_system_fixed.py: the module-level mapping stock_data *)
(* with add_item, remove_item, get_qty, check_low_items, load_data and     *)
(* save_data, and the JSON file the last two read and write.               *)
(*                                                                         *)
(* A Python dict is modelled as the sequence of its entries in insertion   *)
(* order.  A JSON text is modelled as the sequence of its tokens, so that  *)
(* json.dump and json.load are two different computations.                 *)
(***************************************************************************)
EXTENDS Integers, Sequences, FiniteSets, TLC

\* ---------------------------------------------------------------- bounds
\* largest quantity an entry may hold, and largest qty / threshold argument
MaxQty == 2
\* magnitude of the most negative quantity / qty argument
NegQty == 1

\* ------------------------------------------------------- Python values
\* a Python argument value: its type tag and its payload
StrVal(s) == [t |-> "str", s |-> s, n |-> 0]
IntVal(n) == [t |-> "int", s |-> "", n |-> n]
BoolVal(b) == [t |-> "bool", s |-> "", n |-> IF b THEN 1 ELSE 0]

\* item names used by the callers
Names == {"apple", "banana"}

\* `not item`: the empty string and the number 0 are falsy
Falsy(x) ==
    \/ x.t = "str" /\ x.s = ""
    \/ x.t \in {"int", "bool"} /\ x.n = 0

\* isinstance(item, str)
IsStr(x) == x.t = "str"

\* isinstance(qty, int): bool is a subclass of int
IsInt(x) == x.t \in {"int", "bool"}

\* ---------------------------------------------------------------- dict
\* stock_data = {}
EmptyDict == [kind |-> "dict", kv |-> <<>>]

\* the value json.load yields for a JSON text that is an array, not an object
ListValue == [kind |-> "list", kv |-> <<>>]

\* item in stock_data
Has(kv, k) == \E i \in 1..Len(kv) : kv[i].k = k

Idx(kv, k) == CHOOSE i \in 1..Len(kv) : kv[i].k = k

\* stock_data.get(item, default)
DictGet(kv, k, default) == IF Has(kv, k) THEN kv[Idx(kv, k)].v ELSE default

\* stock_data[item] = v : an existing key keeps its position, a new key is
\* appended
DictSet(kv, k, v) ==
    IF Has(kv, k)
    THEN [kv EXCEPT ![Idx(kv, k)] = [k |-> k, v |-> v]]
    ELSE Append(kv, [k |-> k, v |-> v])

\* del stock_data[item]
DictDel(kv, k) == SelectSeq(kv, LAMBDA e : e.k # k)

\* the keys of the mapping
Keys(kv) == {kv[i].k : i \in 1..Len(kv)}

\* ----------------------------------------------------------- operations
\* outcome of an operation: the mapping after it, the exception that
\* reached the caller ("none" if it returned), the diagnostic level logged
Outcome(sd, raised, diag) == [sd |-> sd, raised |-> raised, diag |-> diag]

AddNoTypeCheck(sd, item, qty) ==
    IF Falsy(item) THEN Outcome(sd, "none", "none")
    ELSE IF ~IsStr(item) THEN Outcome(sd, "none", "error")
    ELSE IF sd.kind # "dict" THEN Outcome(sd, "AttributeError", "none")
    ELSE Outcome([sd EXCEPT !.kv = DictSet(sd.kv, item.s,
                                  DictGet(sd.kv, item.s, 0) + qty.n)],
                 "none", "info")

AddOverwrites(sd, item, qty) ==
    IF Falsy(item) THEN Outcome(sd, "none", "none")
    ELSE IF ~IsStr(item) THEN Outcome(sd, "none", "error")
    ELSE IF ~IsInt(qty) THEN Outcome(sd, "none", "error")
    ELSE IF sd.kind # "dict" THEN Outcome(sd, "AttributeError", "none")
    ELSE Outcome([sd EXCEPT !.kv = DictSet(sd.kv, item.s, qty.n)],
                 "none", "info")

\* add_item(item, qty)
add_item(sd, item, qty) ==
    IF Falsy(item) THEN Outcome(sd, "none", "none")
    ELSE IF ~IsStr(item) THEN Outcome(sd, "none", "error")
    ELSE IF ~IsInt(qty) THEN Outcome(sd, "none", "error")
    ELSE IF sd.kind # "dict" THEN Outcome(sd, "AttributeError", "none")
    ELSE Outcome([sd EXCEPT !.kv = DictSet(sd.kv, item.s,
                                  DictGet(sd.kv, item.s, 0) + qty.n)],
                 "none", "info")

RemoveKeepsZero(sd, k, q) ==
    IF sd.kind # "dict" \/ ~Has(sd.kv, k)
    THEN Outcome(sd, "none", "error")
    ELSE IF DictGet(sd.kv, k, 0) - q < 0
    THEN Outcome([sd EXCEPT !.kv = DictDel(sd.kv, k)], "none", "info")
    ELSE Outcome([sd EXCEPT !.kv = DictSet(sd.kv, k, DictGet(sd.kv, k, 0) - q)],
                 "none", "none")

RemoveNoMembershipTest(sd, k, q) ==
    IF sd.kind # "dict"
    THEN Outcome(sd, "none", "error")
    ELSE IF DictGet(sd.kv, k, 0) - q <= 0
    THEN Outcome([sd EXCEPT !.kv = DictDel(sd.kv, k)], "none", "info")
    ELSE Outcome([sd EXCEPT !.kv = DictSet(sd.kv, k, DictGet(sd.kv, k, 0) - q)],
                 "none", "none")

\* remove_item(item, qty) for a string item k and an integer qty q.  On a
\* list of numbers `item not in stock_data` is true as well, so the KeyError
\* is raised and caught there too.
remove_item(sd, k, q) ==
    IF sd.kind # "dict" \/ ~Has(sd.kv, k)
    THEN Outcome(sd, "none", "error")
    ELSE IF DictGet(sd.kv, k, 0) - q <= 0
    THEN Outcome([sd EXCEPT !.kv = DictDel(sd.kv, k)], "none", "info")
    ELSE Outcome([sd EXCEPT !.kv = DictSet(sd.kv, k, DictGet(sd.kv, k, 0) - q)],
                 "none", "none")

\* get_qty(item): the value returned and the exception raised
get_qty(sd, k) ==
    IF sd.kind # "dict"
    THEN [ret |-> 0, raised |-> "AttributeError"]
    ELSE [ret |-> DictGet(sd.kv, k, 0), raised |-> "none"]

RECURSIVE LowScanInclusive(_, _)
LowScanInclusive(kv, threshold) ==
    IF kv = <<>> THEN <<>>
    ELSE (IF Head(kv).v <= threshold THEN <<Head(kv).k>> ELSE <<>>)
         \o LowScanInclusive(Tail(kv), threshold)

\* the loop of check_low_items over stock_data.items()
RECURSIVE LowScan(_, _)
LowScan(kv, threshold) ==
    IF kv = <<>> THEN <<>>
    ELSE (IF Head(kv).v < threshold THEN <<Head(kv).k>> ELSE <<>>)
         \o LowScan(Tail(kv), threshold)

\* check_low_items(threshold): the list returned and the exception raised
check_low_items(sd, threshold) ==
    IF sd.kind # "dict"
    THEN [ret |-> <<>>, raised |-> "AttributeError"]
    ELSE [ret |-> LowScan(sd.kv, threshold), raised |-> "none"]

\* ------------------------------------------------------------ JSON text
\* tokens of a JSON text (white space and indentation carry no content)
Punct(c) == [t |-> "p", s |-> c, n |-> 0]
StrTok(s) == [t |-> "s", s |-> s, n |-> 0]
NumTok(n) == [t |-> "n", s |-> "", n |-> n]

\* the members of a JSON object, in the dict's iteration order
RECURSIVE Members(_)
Members(kv) ==
    IF kv = <<>> THEN <<>>
    ELSE <<StrTok(Head(kv).k), Punct(":"), NumTok(Head(kv).v)>>
         \o (IF Tail(kv) = <<>> THEN <<>>
             ELSE <<Punct(",")>> \o Members(Tail(kv)))

DumpFirstOnly(sd) ==
    IF sd.kind = "dict"
    THEN <<Punct("{")>>
         \o Members(IF sd.kv = <<>> THEN <<>> ELSE <<Head(sd.kv)>>)
         \o <<Punct("}")>>
    ELSE <<Punct("["), NumTok(1), Punct("]")>>

\* json.dump(stock_data, f, indent=2)
Dump(sd) ==
    IF sd.kind = "dict"
    THEN <<Punct("{")>> \o Members(sd.kv) \o <<Punct("}")>>
    ELSE <<Punct("["), NumTok(1), Punct("]")>>

\* result of parsing: ok is FALSE where json.load raises JSONDecodeError
ParseOk(v) == [ok |-> TRUE, val |-> v]
ParseError == [ok |-> FALSE, val |-> EmptyDict]

\* the members of an object: a repeated key keeps its first position and
\* takes the last value, as a Python dict built by json.load does
RECURSIVE ParseMembers(_, _)
ParseMembers(s, acc) ==
    IF Len(s) < 3 THEN ParseError
    ELSE IF ~(s[1].t = "s" /\ s[2] = Punct(":") /\ s[3].t = "n") THEN ParseError
    ELSE IF Len(s) = 3
         THEN ParseOk([kind |-> "dict", kv |-> DictSet(acc, s[1].s, s[3].n)])
    ELSE IF s[4] = Punct(",")
         THEN ParseMembers(SubSeq(s, 5, Len(s)), DictSet(acc, s[1].s, s[3].n))
    ELSE ParseError

\* json.load(f)
Parse(text) ==
    IF Len(text) < 2 THEN ParseError
    ELSE IF text[1] = Punct("{") /\ text[Len(text)] = Punct("}")
         THEN IF Len(text) = 2 THEN ParseOk(EmptyDict)
              ELSE ParseMembers(SubSeq(text, 2, Len(text) - 1), <<>>)
    ELSE IF text = <<Punct("["), NumTok(1), Punct("]")>> THEN ParseOk(ListValue)
    ELSE ParseError

\* ---------------------------------------------------------------- file
\* the file at the path: whether it exists, and its text
NoFile == [exists |-> FALSE, text |-> <<>>]
FileWith(text) == [exists |-> TRUE, text |-> text]

LoadResetsOnMalformed(sd, f, readable) ==
    IF ~f.exists THEN Outcome(EmptyDict, "none", "warning")
    ELSE IF ~readable THEN Outcome(sd, "PermissionError", "none")
    ELSE IF ~Parse(f.text).ok THEN Outcome(EmptyDict, "none", "error")
    ELSE Outcome(Parse(f.text).val, "none", "info")

LoadKeepsOnMissing(sd, f, readable) ==
    IF ~f.exists THEN Outcome(sd, "none", "warning")
    ELSE IF ~readable THEN Outcome(sd, "PermissionError", "none")
    ELSE IF ~Parse(f.text).ok THEN Outcome(sd, "none", "error")
    ELSE Outcome(Parse(f.text).val, "none", "info")

\* load_data(file).  open() raises FileNotFoundError (handled: reset to {}),
\* or PermissionError when the file may not be read (no handler: it reaches
\* the caller); json.load raises JSONDecodeError before stock_data is
\* assigned (handled: logged); otherwise stock_data is whatever was parsed.
load_data(sd, f, readable) ==
    IF ~f.exists THEN Outcome(EmptyDict, "none", "warning")
    ELSE IF ~readable THEN Outcome(sd, "PermissionError", "none")
    ELSE IF ~Parse(f.text).ok THEN Outcome(sd, "none", "error")
    ELSE Outcome(Parse(f.text).val, "none", "info")

\* save_data(file).  fault "open": open(file, "w") raises OSError, the file
\* is untouched.  fault "write": the file was truncated by open and the
\* write fails after cut tokens.  IOError is handled in both cases.
save_data(sd, f, fault, cut) ==
    IF fault = "open" THEN [file |-> f, raised |-> "none", diag |-> "error"]
    ELSE IF fault = "write"
    THEN [file |-> FileWith(SubSeq(Dump(sd), 1, cut)),
          raised |-> "none", diag |-> "error"]
    ELSE [file |-> FileWith(Dump(sd)), raised |-> "none", diag |-> "info"]

\* --------------------------------------------------------------- state
VARIABLES
    stock_data,  \* the module-level mapping
    file,        \* the file at the path given to load_data and save_data
    last,        \* the last call: its arguments, the mapping before it,
                 \* what it returned or raised
    fresh,       \* TRUE while the calls so far are adds of a positive
                 \* integer qty to a named item (and queries)
    added        \* while fresh: per name, the sum of the qty values passed

vars == <<stock_data, file, last, fresh, added>>

NoVal == IntVal(0)

Call(op, item, qty, pre, raised, diag, retQty, retLow, after) ==
    [op |-> op, item |-> item, qty |-> qty, pre |-> pre, raised |-> raised,
     diag |-> diag, retQty |-> retQty, retLow |-> retLow, after |-> after]

NoneAdded == [n \in Names |-> 0]

\* files the path may hold when the program starts
InitFiles ==
    { NoFile,
      FileWith(<<Punct("{"), StrTok("apple"), Punct(":")>>),
      FileWith(<<Punct("["), NumTok(1), Punct("]")>>),
      FileWith(<<Punct("{"), StrTok("apple"), Punct(":"), NumTok(0),
                 Punct("}")>>) }

Init ==
    /\ stock_data = EmptyDict
    /\ file \in InitFiles
    /\ last = Call("init", NoVal, NoVal, EmptyDict, "none", "none", 0, <<>>,
                   "other")
    /\ fresh = TRUE
    /\ added = NoneAdded

\* quantities stay within the model's range
InBounds(sd) ==
    \A i \in 1..Len(sd.kv) : sd.kv[i].v \in (0 - NegQty)..MaxQty

QtyRange == (0 - NegQty)..MaxQty

\* arguments the callers pass to add_item: names, the empty string, numbers
ItemArgs == {StrVal(n) : n \in Names} \cup {StrVal(""), IntVal(123), IntVal(0)}
QtyArgs == {IntVal(n) : n \in QtyRange} \cup {StrVal("ten"), BoolVal(TRUE)}
\* a name with every qty; a rejected item with one integer and one string
AddArgs ==
    ({StrVal(n) : n \in Names} \X QtyArgs)
    \cup ((ItemArgs \ {StrVal(n) : n \in Names}) \X {IntVal(1), StrVal("ten")})

Add(item, qty) ==
    LET o == add_item(stock_data, item, qty)
        pos == fresh /\ IsStr(item) /\ item.s \in Names
                     /\ qty.t = "int" /\ qty.n > 0
    IN  /\ InBounds(o.sd)
        /\ stock_data' = o.sd
        /\ last' = Call("add", item, qty, stock_data, o.raised, o.diag, 0,
                        <<>>, "other")
        /\ fresh' = pos
        /\ added' = IF pos THEN [added EXCEPT ![item.s] = @ + qty.n]
                    ELSE NoneAdded
        /\ UNCHANGED file

Remove(k, q) ==
    LET o == remove_item(stock_data, k, q)
        over == /\ last.op = "remove" /\ last.item = StrVal(k)
                /\ Has(last.pre.kv, k)
                /\ DictGet(last.pre.kv, k, 0) - last.qty.n < 0
    IN  /\ InBounds(o.sd)
        /\ stock_data' = o.sd
        /\ last' = Call("remove", StrVal(k), IntVal(q), stock_data, o.raised,
                        o.diag, 0, <<>>,
                        IF over THEN "over_removed" ELSE "other")
        /\ fresh' = FALSE
        /\ added' = NoneAdded
        /\ UNCHANGED file

GetQty(k) ==
    LET r == get_qty(stock_data, k)
    IN  /\ last' = Call("get", StrVal(k), NoVal, stock_data, r.raised, "none",
                        r.ret, <<>>, "other")
        /\ UNCHANGED <<stock_data, file, fresh, added>>

CheckLow(threshold) ==
    LET r == check_low_items(stock_data, threshold)
    IN  /\ last' = Call("low", NoVal, IntVal(threshold), stock_data, r.raised,
                        "none", 0, r.ret, "other")
        /\ UNCHANGED <<stock_data, file, fresh, added>>

Load(readable) ==
    LET o == load_data(stock_data, file, readable)
    IN  /\ stock_data' = o.sd
        /\ last' = Call("load", NoVal, NoVal, stock_data, o.raised, o.diag, 0,
                        <<>>,
                        IF last.op = "save"
                        THEN (IF last.diag = "info" THEN "save_ok"
                              ELSE "save_failed")
                        ELSE "other")
        /\ fresh' = FALSE
        /\ added' = NoneAdded
        /\ UNCHANGED file

Save(fault, cut) ==
    LET o == save_data(stock_data, file, fault, cut)
    IN  /\ file' = o.file
        /\ last' = Call("save", NoVal, NoVal, stock_data, o.raised, o.diag, 0,
                        <<>>, "other")
        /\ fresh' = FALSE
        /\ added' = NoneAdded
        /\ UNCHANGED stock_data

\* where a failing write may stop: before anything reached the file, or
\* after the opening token (every proper prefix of a dump is malformed alike)
CutPoints(text) == {0, 1}

Next ==
    \/ \E a \in AddArgs : Add(a[1], a[2])
    \/ \E k \in Names, q \in QtyRange : Remove(k, q)
    \/ \E k \in Names : GetQty(k)
    \/ \E threshold \in (0 - NegQty)..(MaxQty + 1) : CheckLow(threshold)
    \/ \E readable \in BOOLEAN : Load(readable)
    \/ Save("none", 0)
    \/ Save("open", 0)
    \/ \E cut \in CutPoints(Dump(stock_data)) : Save("write", cut)

Spec == Init /\ [][Next]_vars

\* -------------------------------------------------------------- claims

\* C1: every item present in the mapping has quantity > 0, in every state
\* reachable by add, remove, load and save.
C1_AllQuantitiesPositive ==
    stock_data.kind = "dict"
        => \A i \in 1..Len(stock_data.kv) : stock_data.kv[i].v > 0

\* C2: after any sequence of adds of a positive integer qty on the empty
\* ledger, get_qty of every name is the sum of the qty values passed for
\* that name (0 for a name never added).
C2_AddsSum ==
    fresh => \A n \in Names :
                 get_qty(stock_data, n) = [ret |-> added[n], raised |-> "none"]

\* an add to a name already present, beside an entry for another name
C2_Witness ==
    /\ fresh
    /\ last.op = "add"
    /\ Has(last.pre.kv, last.item.s)
    /\ Len(stock_data.kv) = 2

\* C3: remove on a present item with quantity prev: get_qty afterwards is 0
\* and the key is deleted when prev - qty <= 0, and is prev - qty otherwise.
C3_RemoveThenGet ==
    (last.op = "remove" /\ last.pre.kind = "dict"
         /\ Has(last.pre.kv, last.item.s))
        => LET k == last.item.s
               new == DictGet(last.pre.kv, k, 0) - last.qty.n
           IN  IF new <= 0
               THEN /\ get_qty(stock_data, k) = [ret |-> 0, raised |-> "none"]
                    /\ k \notin Keys(stock_data.kv)
               ELSE get_qty(stock_data, k) = [ret |-> new, raised |-> "none"]

\* an over-removal: the quantity would have become negative
C3_Witness ==
    /\ last.op = "remove"
    /\ Has(last.pre.kv, last.item.s)
    /\ DictGet(last.pre.kv, last.item.s, 0) - last.qty.n < 0
    /\ Len(last.pre.kv) = 2
    /\ Len(stock_data.kv) = 1

C5_MalformedLoadKeeps ==
    (last.op = "load" /\ file.exists /\ ~Parse(file.text).ok)
        => stock_data = last.pre

\* a populated mapping survives the load of a malformed file
C5_Witness ==
    /\ last.op = "load"
    /\ file.exists
    /\ ~Parse(file.text).ok
    /\ last.diag = "error"
    /\ Len(last.pre.kv) = 2

\* C6: no operation lets a failure reach the caller.
C6_NoFailureEscapes == last.raised = "none"

\* C7: remove on an item absent from the mapping leaves the mapping
\* unchanged and returns normally.
C7_RemoveAbsentNoChange ==
    (last.op = "remove" /\ ~Has(last.pre.kv, last.item.s))
        => /\ stock_data = last.pre
           /\ last.raised = "none"

\* a remove of an item that the previous call deleted by over-removal
C7_Witness ==
    /\ last.op = "remove"
    /\ last.after = "over_removed"
    /\ ~Has(last.pre.kv, last.item.s)
    /\ last.pre.kv # <<>>
    /\ last.diag = "error"

\* C8: add with a non-string item, a non-integer qty or an empty/falsy item
\* leaves the mapping unchanged.
C8_InvalidAddNoChange ==
    (last.op = "add"
         /\ (\/ last.item.t # "str"
             \/ last.item = StrVal("")
             \/ last.qty.t \notin {"int", "bool"}))
        => stock_data = last.pre

\* a name added with a string qty to a mapping holding another name
C8_Witness ==
    /\ last.op = "add"
    /\ last.item = StrVal("apple")
    /\ last.qty = StrVal("ten")
    /\ Keys(last.pre.kv) = {"banana"}
    /\ last.diag = "error"

\* C9: a load when no file exists at the path replaces the mapping with the
\* empty mapping and returns normally.
C9_MissingLoadResets ==
    (last.op = "load" /\ ~file.exists)
        => /\ stock_data = EmptyDict
           /\ last.raised = "none"

\* a populated mapping reset by the load of a missing file
C9_Witness ==
    /\ last.op = "load"
    /\ ~file.exists
    /\ last.diag = "warning"
    /\ Len(last.pre.kv) = 2

\* C10: on a mapping, check_low_items returns exactly the items whose
\* quantity is strictly below the threshold, each once, in insertion order,
\* and leaves the mapping unchanged.
C10_LowItemsExact ==
    (last.op = "low" /\ last.pre.kind = "dict")
        => LET r == last.retLow
               kv == last.pre.kv
           IN  /\ last.raised = "none"
               /\ stock_data = last.pre
               /\ {r[i] : i \in 1..Len(r)}
                      = {k \in Keys(kv) : DictGet(kv, k, 0) < last.qty.n}
               /\ \A i, j \in 1..Len(r) :
                      i < j => Idx(kv, r[i]) < Idx(kv, r[j])

\* one item at the threshold is left out, the other, below it, is returned
C10_Witness ==
    /\ last.op = "low"
    /\ Len(last.pre.kv) = 2
    /\ \E i \in 1..2 : last.pre.kv[i].v = last.qty.n
    /\ Len(last.retLow) = 1

====
